---- MODULE Spec2Model ----
\* A model of crates/bidiff/src/lib.rs: the bsdiff scanner (BsdiffIterator),
\* the driver `diff` in single-chunk and chunked mode, the Translator that
\* turns matches into Controls, and the applier of `assert_cycle` as the
\* control sink.
EXTENDS Integers, Sequences, FiniteSets, TLC

\* ------------------------------------------------------------------ bounds

\* Longest OLD / NEW buffer enumerated exhaustively.
MaxLen == 3
\* Largest of the small scan_chunk_size values tried in chunked mode.
MaxChunkSize == 2
\* A scan_chunk_size no NEW of the model exceeds.
WholeChunkSize == 24
\* Most chunks (parallel workers) a chunked run is split into.
MaxChunks == 4
\* Most matches a caller hands to a Translator it drives itself.
MaxMatches == 2
\* DiffParams::new is called with sort_partitions and scan_chunk_size in
\* 0..MaxArg.
MaxArg == 7

\* ------------------------------------------------------------- basic values

\* Byte values used in the buffers: 0 and 255 make both wrapping_sub and
\* wrapping_add wrap around.
Bytes == {0, 255}

\* u8 arithmetic is modulo 256.
ByteMod == 256

\* `as usize` of a signed value is modular.  TLC integers are 32 bits wide, so
\* the modulus is 2^30 in place of 2^64: every buffer length and cursor of the
\* model is far below either, and only comparisons against them are made.
UsizeMod == 1073741824

as_usize(x) == x % UsizeMod

wrapping_sub(a, b) == (a - b) % ByteMod

wrapping_add(a, b) == (a + b) % ByteMod

\* Option<T>: None is the empty sequence, Some(x) the sequence <<x>>.
None == << >>

Some(x) == << x >>

min(a, b) == IF a < b THEN a ELSE b

\* 0-based indexing into a byte buffer; callers check the bounds.
At(buf, i) == buf[i + 1]

InBounds(buf, i) == i >= 0 /\ i < Len(buf)

\* buf[a..b], for 0 <= a <= b <= |buf|.
Slice(buf, a, b) == SubSeq(buf, a + 1, b)

\* All byte sequences of length 0..n.
SeqsUpTo(n) == UNION { [1..k -> Bytes] : k \in 0..n }

\* nbuf.par_chunks(chunk_size): chunk i of nbuf.
NumChunks(buf, chunk_size) == (Len(buf) + chunk_size - 1) \div chunk_size

Chunk(buf, chunk_size, i) ==
    Slice(buf, i * chunk_size, min((i + 1) * chunk_size, Len(buf)))

\* ------------------------------------------------------- substring index

\* sa: how the index built over OLD breaks ties between the occurrences of
\* the longest match: "first" and "last" are deterministic indexes (the
\* smallest or the largest start), "any" may answer with any occurrence at
\* every query.
VARIABLE sa

\* The first l bytes of the query q occur in obuf at position p.
Occurs(obuf, q, l, p) ==
    /\ p + l <= Len(obuf)
    /\ \A i \in 0..(l - 1) : At(obuf, p + i) = At(q, i)

\* The longest l' <= l such that q[0 .. l') occurs somewhere in obuf.
RECURSIVE LongestLen(_, _, _)
LongestLen(obuf, q, l) ==
    IF l = 0 THEN 0
    ELSE IF \E p \in 0..(Len(obuf) - l) : Occurs(obuf, q, l, p) THEN l
    ELSE LongestLen(obuf, q, l - 1)

\* Every occurrence of the longest prefix of q that occurs in obuf.
Occurrences(obuf, q) ==
    LET l == LongestLen(obuf, q, Len(q))
    IN  { [start |-> p, len |-> l] : p \in { x \in 0..(Len(obuf) - l) : Occurs(obuf, q, l, x) } }

\* sa.longest_substring_match(q): every answer the index sa may give.
longest_substring_match(obuf, q) ==
    LET all == Occurrences(obuf, q)
    IN  IF sa = "first" THEN { r \in all : \A o \in all : r.start <= o.start }
        ELSE IF sa = "last" THEN { r \in all : \A o \in all : r.start >= o.start }
        ELSE all

\* ---------------------------------------------------------- BsdiffIterator

\* `length > oldscore + 8`: the margin by which a new match must beat the
\* continuation of the previous one.
SignificantMargin == 8

\* BsdiffIterator::new
BsdiffIterator_new ==
    [scan |-> 0, pos |-> 0, length |-> 0,
     lastscan |-> 0, lastpos |-> 0, lastoffset |-> 0]

\* while scsc < self.scan + self.length { ... }: the sliding check that counts
\* in oldscore the bytes the previous offset still explains.
RECURSIVE ScscLoop(_, _, _, _, _)
ScscLoop(obuf, nbuf, st, scsc, oldscore) ==
    IF ~(scsc < st.scan + st.length)
    THEN [scsc |-> scsc, oldscore |-> oldscore, panic |-> FALSE]
    ELSE LET oi == as_usize(scsc + st.lastoffset)
         IN  IF oi < Len(obuf) /\ ~InBounds(nbuf, scsc)
             THEN [scsc |-> scsc, oldscore |-> oldscore, panic |-> TRUE]
             ELSE ScscLoop(obuf, nbuf, st, scsc + 1,
                           IF oi < Len(obuf) /\ At(obuf, oi) = At(nbuf, scsc)
                           THEN oldscore + 1 ELSE oldscore)

\* The position of one call of next: the iterator, the locals that live
\* across the loops (scsc, oldscore), where the call stands (at: "outer" the
\* head of the outer while, "inner" the head of 'inner, "check" the test after
\* 'inner, "ret" returned), the item returned and whether it panicked.
Call(st) ==
    [st |-> st, scsc |-> 0, oldscore |-> 0, at |-> "outer", m |-> None, panic |-> FALSE]

\* while self.scan < nbuflen { let mut oldscore = 0; self.scan += self.length;
\* let mut scsc = self.scan; ...
OuterHead(nbuf, x) ==
    IF ~(x.st.scan < Len(nbuf))
    THEN [x EXCEPT !.at = "ret", !.m = None]
    ELSE [x EXCEPT !.st.scan = x.st.scan + x.st.length,
                   !.oldscore = 0,
                   !.scsc = x.st.scan + x.st.length,
                   !.at = "inner"]

\* One iteration of 'inner, the index having answered res.
InnerBody(obuf, nbuf, x, res) ==
    LET st == [x.st EXCEPT !.pos = res.start, !.length = res.len]
        c == ScscLoop(obuf, nbuf, st, x.scsc, x.oldscore)
        significantly_better == st.length > c.oldscore + SignificantMargin
        same_length == st.length = c.oldscore /\ st.length # 0
        oi == as_usize(st.scan + st.lastoffset)
        hit == oi < Len(obuf) /\ At(obuf, oi) = At(nbuf, st.scan)
        y == [x EXCEPT !.st = st, !.scsc = c.scsc, !.oldscore = c.oldscore]
    IN  IF c.panic
        THEN [y EXCEPT !.at = "ret", !.panic = TRUE]
        ELSE IF same_length \/ significantly_better
        THEN [y EXCEPT !.at = "check"]
        ELSE IF hit /\ c.oldscore < 1
        THEN [y EXCEPT !.at = "ret", !.panic = TRUE]
        ELSE [y EXCEPT !.st.scan = st.scan + 1,
                       !.oldscore = IF hit THEN c.oldscore - 1 ELSE c.oldscore]

\* 'inner: while self.scan < nbuflen { ... }: one position for every answer
\* the index may give.
InnerHead(obuf, nbuf, x) ==
    IF ~(x.st.scan < Len(nbuf))
    THEN { [x EXCEPT !.at = "check"] }
    ELSE { InnerBody(obuf, nbuf, x, res)
           : res \in longest_substring_match(obuf, Slice(nbuf, x.st.scan, Len(nbuf))) }

\* Mutant of LenfLoop: a length that only ties the best score is taken too.
RECURSIVE LenfLoop_nonStrict(_, _, _, _, _, _, _, _)
LenfLoop_nonStrict(obuf, nbuf, st, i, n, s, sf, lenf) ==
    IF ~(i < n) THEN [len |-> lenf, panic |-> FALSE]
    ELSE IF ~InBounds(obuf, st.lastpos + i) \/ ~InBounds(nbuf, st.lastscan + i)
    THEN [len |-> lenf, panic |-> TRUE]
    ELSE LET s1 == IF At(obuf, st.lastpos + i) = At(nbuf, st.lastscan + i)
                   THEN s + 1 ELSE s
             i1 == i + 1
             better == s1 * 2 - i1 >= sf * 2 - lenf
         IN  LenfLoop_nonStrict(obuf, nbuf, st, i + 1, n, s1,
                                IF better THEN s1 ELSE sf, IF better THEN i1 ELSE lenf)

\* for i in 0..n { ... }: the forward extension from (lastpos, lastscan).
RECURSIVE LenfLoop(_, _, _, _, _, _, _, _)
LenfLoop(obuf, nbuf, st, i, n, s, sf, lenf) ==
    IF ~(i < n) THEN [len |-> lenf, panic |-> FALSE]
    ELSE IF ~InBounds(obuf, st.lastpos + i) \/ ~InBounds(nbuf, st.lastscan + i)
    THEN [len |-> lenf, panic |-> TRUE]
    ELSE LET s1 == IF At(obuf, st.lastpos + i) = At(nbuf, st.lastscan + i)
                   THEN s + 1 ELSE s
             i1 == i + 1
             better == s1 * 2 - i1 > sf * 2 - lenf
         IN  LenfLoop(obuf, nbuf, st, i + 1, n, s1,
                      IF better THEN s1 ELSE sf, IF better THEN i1 ELSE lenf)

\* let mut lenf = { ... }: length forward from lastscan.
ForwardLen(obuf, nbuf, st) ==
    IF st.scan < st.lastscan \/ Len(obuf) < st.lastpos
    THEN [len |-> 0, panic |-> TRUE]
    ELSE LenfLoop(obuf, nbuf, st, 0,
                  min(st.scan - st.lastscan, Len(obuf) - st.lastpos), 0, 0, 0)

\* Mutant of LenbLoop: a length that only ties the best score is taken too.
RECURSIVE LenbLoop_nonStrict(_, _, _, _, _, _, _, _)
LenbLoop_nonStrict(obuf, nbuf, st, i, n, s, sb, lenb) ==
    IF ~(i <= n) THEN [len |-> lenb, panic |-> FALSE]
    ELSE IF ~InBounds(obuf, st.pos - i) \/ ~InBounds(nbuf, st.scan - i)
    THEN [len |-> lenb, panic |-> TRUE]
    ELSE LET s1 == IF At(obuf, st.pos - i) = At(nbuf, st.scan - i)
                   THEN s + 1 ELSE s
             better == s1 * 2 - i >= sb * 2 - lenb
         IN  LenbLoop_nonStrict(obuf, nbuf, st, i + 1, n, s1,
                                IF better THEN s1 ELSE sb, IF better THEN i ELSE lenb)

\* for i in 1..=n { ... }: the backward extension from (pos, scan).
RECURSIVE LenbLoop(_, _, _, _, _, _, _, _)
LenbLoop(obuf, nbuf, st, i, n, s, sb, lenb) ==
    IF ~(i <= n) THEN [len |-> lenb, panic |-> FALSE]
    ELSE IF ~InBounds(obuf, st.pos - i) \/ ~InBounds(nbuf, st.scan - i)
    THEN [len |-> lenb, panic |-> TRUE]
    ELSE LET s1 == IF At(obuf, st.pos - i) = At(nbuf, st.scan - i)
                   THEN s + 1 ELSE s
             better == s1 * 2 - i > sb * 2 - lenb
         IN  LenbLoop(obuf, nbuf, st, i + 1, n, s1,
                      IF better THEN s1 ELSE sb, IF better THEN i ELSE lenb)

\* Mutant of BackwardLen: the loop is bounded by scan - lastscan alone.
BackwardLen_noPosBound(obuf, nbuf, st) ==
    IF st.scan >= Len(nbuf) THEN [len |-> 0, panic |-> FALSE]
    ELSE IF st.scan < st.lastscan THEN [len |-> 0, panic |-> TRUE]
    ELSE LenbLoop(obuf, nbuf, st, 1, st.scan - st.lastscan, 0, 0, 0)

\* let mut lenb = if self.scan >= nbuflen { 0 } else { ... }: length
\* backwards from scan.
BackwardLen(obuf, nbuf, st) ==
    IF st.scan >= Len(nbuf) THEN [len |-> 0, panic |-> FALSE]
    ELSE IF st.scan < st.lastscan THEN [len |-> 0, panic |-> TRUE]
    ELSE LenbLoop(obuf, nbuf, st, 1, min(st.scan - st.lastscan, st.pos), 0, 0, 0)

\* for i in 0..overlap { ... }: where to split the overlap of the two
\* extensions.
RECURSIVE LensLoop(_, _, _, _, _, _, _, _, _, _)
LensLoop(obuf, nbuf, st, lenf, lenb, overlap, i, s, ss, lens) ==
    IF ~(i < overlap) THEN [len |-> lens, panic |-> FALSE]
    ELSE IF \/ ~InBounds(nbuf, st.lastscan + lenf - overlap + i)
            \/ ~InBounds(obuf, st.lastpos + lenf - overlap + i)
            \/ ~InBounds(nbuf, st.scan - lenb + i)
            \/ ~InBounds(obuf, st.pos - lenb + i)
    THEN [len |-> lens, panic |-> TRUE]
    ELSE LET a == IF At(nbuf, st.lastscan + lenf - overlap + i)
                     = At(obuf, st.lastpos + lenf - overlap + i)
                  THEN s + 1 ELSE s
             b == IF At(nbuf, st.scan - lenb + i) = At(obuf, st.pos - lenb + i)
                  THEN a - 1 ELSE a
             better == b > ss
         IN  LensLoop(obuf, nbuf, st, lenf, lenb, overlap, i + 1, b,
                      IF better THEN b ELSE ss, IF better THEN i + 1 ELSE lens)

\* Mutant of Arbitrate: the overlap is left to both extensions.
Arbitrate_noCrop(obuf, nbuf, st, lenf, lenb) ==
    [lenf |-> lenf, lenb |-> lenb, panic |-> FALSE]

\* if lastscan_was_better { ... }: overlap arbitration; the final lenf, lenb.
Arbitrate(obuf, nbuf, st, lenf, lenb) ==
    IF lenb > st.scan THEN [lenf |-> lenf, lenb |-> lenb, panic |-> TRUE]
    ELSE IF ~(st.lastscan + lenf > st.scan - lenb)
    THEN [lenf |-> lenf, lenb |-> lenb, panic |-> FALSE]
    ELSE LET overlap == (st.lastscan + lenf) - (st.scan - lenb)
             l == LensLoop(obuf, nbuf, st, lenf, lenb, overlap, 0, 0, 0, 0)
         IN  [lenf |-> lenf + l.len - overlap,
              lenb |-> lenb - l.len,
              panic |-> l.panic \/ lenf + l.len < overlap \/ lenb < l.len]

\* let m = Match { ... }
NewMatch(st, lenf, lenb) ==
    [add_old_start |-> st.lastpos,
     add_new_start |-> st.lastscan,
     add_length    |-> lenf,
     copy_end      |-> st.scan - lenb]

\* Mutant of UpdateLast: the next region starts at scan, not at scan - lenb.
UpdateLast_noLenb(st, lenb) ==
    [st EXCEPT !.lastscan = st.scan,
               !.lastpos = st.pos - lenb,
               !.lastoffset = st.pos - st.scan]

\* self.lastscan = ..; self.lastpos = ..; self.lastoffset = ..
UpdateLast(st, lenb) ==
    [st EXCEPT !.lastscan = st.scan - lenb,
               !.lastpos = st.pos - lenb,
               !.lastoffset = st.pos - st.scan]

\* The emission branch of next: the Match, and the iterator afterwards.
Emit(obuf, nbuf, st) ==
    LET f == ForwardLen(obuf, nbuf, st)
        b == BackwardLen(obuf, nbuf, st)
        a == Arbitrate(obuf, nbuf, st, f.len, b.len)
    IN  IF f.panic \/ b.panic
        THEN [st |-> st, m |-> None, panic |-> TRUE]
        ELSE IF a.panic \/ a.lenb > st.scan \/ a.lenb > st.pos
        THEN [st |-> st, m |-> None, panic |-> TRUE]
        ELSE [st |-> UpdateLast(st, a.lenb),
              m |-> Some(NewMatch(st, a.lenf, a.lenb)),
              panic |-> FALSE]

\* Mutant of AfterInner: reaching the end of NEW does not force an emission.
AfterInner_noDone(obuf, nbuf, x) ==
    IF x.st.length # x.oldscore
    THEN LET e == Emit(obuf, nbuf, x.st)
         IN  [x EXCEPT !.st = e.st, !.m = e.m, !.panic = e.panic, !.at = "ret"]
    ELSE [x EXCEPT !.at = "outer"]

\* let done_scanning = self.scan == nbuflen;
\* if self.length != oldscore || done_scanning { ...; return Some(m); }
AfterInner(obuf, nbuf, x) ==
    IF x.st.length # x.oldscore \/ x.st.scan = Len(nbuf)
    THEN LET e == Emit(obuf, nbuf, x.st)
         IN  [x EXCEPT !.st = e.st, !.m = e.m, !.panic = e.panic, !.at = "ret"]
    ELSE [x EXCEPT !.at = "outer"]

\* One step of every position of the call that has not returned.
StepCall(obuf, nbuf, x) ==
    IF x.at = "outer" THEN { OuterHead(nbuf, x) }
    ELSE IF x.at = "inner" THEN InnerHead(obuf, nbuf, x)
    ELSE IF x.at = "check" THEN { AfterInner(obuf, nbuf, x) }
    ELSE { x }

RECURSIVE RunCall(_, _, _)
RunCall(obuf, nbuf, xs) ==
    IF \A x \in xs : x.at = "ret" THEN xs
    ELSE RunCall(obuf, nbuf, UNION { StepCall(obuf, nbuf, x) : x \in xs })

\* BsdiffIterator::next: every (iterator after the call, item returned) the
\* call can produce.  panic marks an out-of-bounds index or an unsigned
\* underflow.
BsdiffIterator_next(obuf, nbuf, st) ==
    { [st |-> x.st, m |-> x.m, panic |-> x.panic]
      : x \in RunCall(obuf, nbuf, { Call(st) }) }

\* iter.collect(): every match vector one scanner pass over nbuf can produce.
RECURSIVE Collect(_, _, _, _)
Collect(obuf, nbuf, st, acc) ==
    UNION { IF r.panic THEN { [v |-> acc, panic |-> TRUE] }
            ELSE IF r.m = None THEN { [v |-> acc, panic |-> FALSE] }
            ELSE Collect(obuf, nbuf, r.st, Append(acc, r.m[1]))
            : r \in BsdiffIterator_next(obuf, nbuf, st) }

\* -------------------------------------------------------------- Translator

\* Match::copy_start
copy_start(m) == m.add_new_start + m.add_length

\* Translator::new
Translator_new == [prev_match |-> None, buf |-> << >>, closed |-> FALSE]

\* Mutant of Seek: the add region of pm is not counted.
Seek_noAdd(pm, m) == m.add_old_start - pm.add_old_start

\* seek of the Control for pm when m follows it (as i64 on both sides).
Seek(pm, m) == m.add_old_start - (pm.add_old_start + pm.add_length)

\* Mutant of take: the staged match is read but left in place.
take_keep(tr) == tr

\* self.prev_match.take()
take(tr) == [tr EXCEPT !.prev_match = None]

\* Mutant of send_control: the contiguity of m is not asserted.
send_control_noAssert(nbuf, tr, m) ==
    IF tr.prev_match = None
    THEN [tr |-> tr, control |-> None, panic |-> FALSE]
    ELSE LET pm == tr.prev_match[1]
             taken == take(tr)
         IN  IF \/ pm.add_length > Len(tr.buf)
                \/ copy_start(pm) > pm.copy_end
                \/ pm.copy_end > Len(nbuf)
             THEN [tr |-> taken, control |-> None, panic |-> TRUE]
             ELSE [tr |-> taken,
                   control |-> Some([add  |-> SubSeq(tr.buf, 1, pm.add_length),
                                     copy |-> Slice(nbuf, copy_start(pm), pm.copy_end),
                                     seek |-> IF m # None THEN Seek(pm, m[1]) ELSE 0]),
                   panic |-> FALSE]

\* Translator::send_control up to the call of on_control: the translator
\* after prev_match.take(), and the Control handed to the sink (None when no
\* match is staged).  panic marks a failed assert_eq! or slice.
send_control(nbuf, tr, m) ==
    IF tr.prev_match = None
    THEN [tr |-> tr, control |-> None, panic |-> FALSE]
    ELSE LET pm == tr.prev_match[1]
             taken == take(tr)
         IN  IF m # None /\ m[1].add_new_start # pm.copy_end
             THEN [tr |-> taken, control |-> None, panic |-> TRUE]
             ELSE IF \/ pm.add_length > Len(tr.buf)
                     \/ copy_start(pm) > pm.copy_end
                     \/ pm.copy_end > Len(nbuf)
             THEN [tr |-> taken, control |-> None, panic |-> TRUE]
             ELSE [tr |-> taken,
                   control |-> Some([add  |-> SubSeq(tr.buf, 1, pm.add_length),
                                     copy |-> Slice(nbuf, copy_start(pm), pm.copy_end),
                                     seek |-> IF m # None THEN Seek(pm, m[1]) ELSE 0]),
                   panic |-> FALSE]

\* Mutant of AddBytes: OLD is read from its start, not from add_old_start.
AddBytes_unshifted(obuf, nbuf, m) ==
    [i \in 1..m.add_length |->
        wrapping_sub(At(nbuf, m.add_new_start + i - 1), At(obuf, i - 1))]

\* self.buf.extend((0..m.add_length).map(...)): the add bytes of m.
AddBytes(obuf, nbuf, m) ==
    [i \in 1..m.add_length |->
        wrapping_sub(At(nbuf, m.add_new_start + i - 1), At(obuf, m.add_old_start + i - 1))]

\* Mutant of translate: m is staged before the Control of the previous match
\* is sent, and stays staged when the sink refuses that Control.
translate_stageFirst(obuf, nbuf, tr, m, sinkOk) ==
    LET sc == send_control(nbuf, tr, Some(m))
    IN  IF sc.panic
        THEN [tr |-> sc.tr, control |-> None, res |-> "Panic"]
        ELSE IF sc.control # None /\ ~sinkOk
        THEN [tr |-> [sc.tr EXCEPT !.prev_match = Some(m)],
              control |-> sc.control, res |-> "Err"]
        ELSE IF \/ m.add_new_start + m.add_length > Len(nbuf)
                \/ m.add_old_start + m.add_length > Len(obuf)
        THEN [tr |-> [sc.tr EXCEPT !.buf = << >>], control |-> sc.control, res |-> "Panic"]
        ELSE [tr |-> [sc.tr EXCEPT !.buf = AddBytes(obuf, nbuf, m),
                                   !.prev_match = Some(m)],
              control |-> sc.control, res |-> "Ok"]

\* Translator::translate, given whether the sink accepts the Control of the
\* previous match: the translator afterwards, the Control handed to the sink
\* and the result, "Ok", "Err" or "Panic".
translate(obuf, nbuf, tr, m, sinkOk) ==
    LET sc == send_control(nbuf, tr, Some(m))
    IN  IF sc.panic
        THEN [tr |-> sc.tr, control |-> None, res |-> "Panic"]
        ELSE IF sc.control # None /\ ~sinkOk
        THEN [tr |-> sc.tr, control |-> sc.control, res |-> "Err"]
        ELSE IF \/ m.add_new_start + m.add_length > Len(nbuf)
                \/ m.add_old_start + m.add_length > Len(obuf)
        THEN [tr |-> [sc.tr EXCEPT !.buf = << >>], control |-> sc.control, res |-> "Panic"]
        ELSE [tr |-> [sc.tr EXCEPT !.buf = AddBytes(obuf, nbuf, m),
                                   !.prev_match = Some(m)],
              control |-> sc.control, res |-> "Ok"]

\* Mutant of do_close: the staged match is never sent.
do_close_noSend(nbuf, tr, sinkOk) ==
    [tr |-> [tr EXCEPT !.closed = TRUE], control |-> None, res |-> "Ok"]

\* Translator::do_close
do_close(nbuf, tr, sinkOk) ==
    IF tr.closed
    THEN [tr |-> tr, control |-> None, res |-> "Ok"]
    ELSE LET sc == send_control(nbuf, tr, None)
         IN  IF sc.panic
             THEN [tr |-> sc.tr, control |-> None, res |-> "Panic"]
             ELSE IF sc.control # None /\ ~sinkOk
             THEN [tr |-> sc.tr, control |-> sc.control, res |-> "Err"]
             ELSE [tr |-> [sc.tr EXCEPT !.closed = TRUE],
                   control |-> sc.control, res |-> "Ok"]

\* Mutant of drop: self.do_close().unwrap(), a sink error panics.
drop_unwrap(nbuf, tr, sinkOk) ==
    LET t == do_close(nbuf, tr, sinkOk)
    IN  [t EXCEPT !.res = IF t.res = "Err" THEN "Panic" ELSE t.res]

\* Drop for Translator: self.do_close().unwrap_or(()), the error ignored.
drop(nbuf, tr, sinkOk) ==
    LET t == do_close(nbuf, tr, sinkOk)
    IN  [t EXCEPT !.res = IF t.res = "Err" THEN "Ok" ELSE t.res]

\* ------------------------------------------------- control sink (applier)

\* The state of the closure in assert_cycle; fresh is the NEW it rebuilds.
Applier_new == [older_pos |-> 0, newer_pos |-> 0, fresh |-> << >>]

\* for &ab in control.add { ... }
RECURSIVE ApplyAdd(_, _, _, _, _)
ApplyAdd(older, newer, ap, add, i) ==
    IF i > Len(add) THEN [ap |-> ap, panic |-> FALSE]
    ELSE IF ~InBounds(older, ap.older_pos) \/ ~InBounds(newer, ap.newer_pos)
    THEN [ap |-> ap, panic |-> TRUE]
    ELSE LET fb == wrapping_add(add[i], At(older, ap.older_pos))
             nb == At(newer, ap.newer_pos)
             ap1 == [older_pos |-> ap.older_pos + 1,
                     newer_pos |-> ap.newer_pos + 1,
                     fresh     |-> Append(ap.fresh, fb)]
         IN  IF fb # nb THEN [ap |-> ap1, panic |-> TRUE]
             ELSE ApplyAdd(older, newer, ap1, add, i + 1)

\* for &cb in control.copy { ... }
RECURSIVE ApplyCopy(_, _, _, _)
ApplyCopy(newer, ap, copy, i) ==
    IF i > Len(copy) THEN [ap |-> ap, panic |-> FALSE]
    ELSE IF ~InBounds(newer, ap.newer_pos)
    THEN [ap |-> ap, panic |-> TRUE]
    ELSE LET nb == At(newer, ap.newer_pos)
             ap1 == [ap EXCEPT !.newer_pos = ap.newer_pos + 1,
                               !.fresh = Append(ap.fresh, copy[i])]
         IN  IF copy[i] # nb THEN [ap |-> ap1, panic |-> TRUE]
             ELSE ApplyCopy(newer, ap1, copy, i + 1)

\* Mutant of on_control: the seek of the Control is not applied.
on_control_noSeek(older, newer, ap, control) ==
    LET a == ApplyAdd(older, newer, ap, control.add, 1)
        c == ApplyCopy(newer, a.ap, control.copy, 1)
    IN  IF a.panic THEN a ELSE c

\* The control sink of assert_cycle applied to one Control.
on_control(older, newer, ap, control) ==
    LET a == ApplyAdd(older, newer, ap, control.add, 1)
        c == ApplyCopy(newer, a.ap, control.copy, 1)
    IN  IF a.panic THEN a
        ELSE IF c.panic THEN c
        ELSE [ap |-> [c.ap EXCEPT !.older_pos = as_usize(c.ap.older_pos + control.seek)],
              panic |-> FALSE]

\* ------------------------------------------------------------------ state

VARIABLES
    obuf,        \* OLD
    nbuf,        \* NEW
    args,        \* the arguments DiffParams was asked for
    made,        \* what the constructor of DiffParams returned, None before
    params,      \* DiffParams
    pc,          \* where the caller of diff and translator.close stands
    iter,        \* the BsdiffIterator of the single-chunk scan
    cur,         \* the match handed to on_match, None outside the call
    finished,    \* chunked mode: the workers whose closure has returned
    chan,        \* chunked mode: chan[i] is what channel i holds
    rxi,         \* chunked mode: the index of the receiver being drained
    v,           \* chunked mode: the rest of the vector received from rxi
    sent,        \* chunked mode: sent[i] is the vector worker i sent, once sent
    translator,  \* the Translator
    applier,     \* the state of the control sink
    controls,    \* every Control handed to the sink, with the sink's answer
    forwarded,   \* every match handed to on_match, in order
    result,      \* what diff, then close, returned: "None", "Ok" or "Err"
    panicked     \* a panic (failed assertion, index out of bounds) happened

vars == << obuf, nbuf, sa, args, made, params, pc, iter, cur, finished, chan, rxi, v, sent,
           translator, applier, controls, forwarded, result, panicked >>

\* Result<T, E>
Ok(x) == [ok |-> TRUE, value |-> x]

Err(e) == [ok |-> FALSE, error |-> e]

\* Option::filter; the predicate is given as the set of values it accepts.
filter(o, P) == IF o # None /\ o[1] \in P THEN o ELSE None

\* Option::is_some
is_some(o) == o # None

\* Mutant of DiffParams_new: only sort_partitions is checked.
DiffParams_new_noChunkCheck(sort_partitions, scan_chunk_size) ==
    IF sort_partitions < 1
    THEN Err("number of sort partitions cannot be less than 1")
    ELSE Ok([sort_partitions |-> sort_partitions, scan_chunk_size |-> scan_chunk_size])

\* DiffParams::new
DiffParams_new(sort_partitions, scan_chunk_size) ==
    IF sort_partitions < 1
    THEN Err("number of sort partitions cannot be less than 1")
    ELSE IF is_some(filter(scan_chunk_size, { c \in Nat : c < 1 }))
    THEN Err("scan chunk size cannot be less than 1")
    ELSE Ok([sort_partitions |-> sort_partitions, scan_chunk_size |-> scan_chunk_size])

\* DiffParams::default and the chunked parameters scanned.
DiffParams_default == [sort_partitions |-> 1, scan_chunk_size |-> None]

\* The chunk sizes scanned: the small ones, the smallest in which a chunk can
\* hold a significantly better match, and one that holds every NEW whole.
ChunkSizes == (1..MaxChunkSize) \cup { SignificantMargin + 1, WholeChunkSize }

ParamSpace ==
    { DiffParams_default }
    \cup { [sort_partitions |-> 1, scan_chunk_size |-> Some(c)] : c \in ChunkSizes }

\* Longer inputs: only a common substring of more than SignificantMargin
\* bytes makes the scanner emit a match before the end of NEW.
Alt(n, first) == [i \in 1..n |-> IF i % 2 = 1 THEN first ELSE 255 - first]

Flip(o, k) == [o EXCEPT ![k] = 255 - @]

LongOlds ==
    { << 0 >> \o Alt(10, 0),
      << 0, 0 >> \o Alt(10, 0),
      << 255, 0, 0, 255, 0, 0, 255, 255, 0, 0 >> }

\* NEW derived from OLD: OLD itself, one byte flipped, a prefix deleted, a
\* byte inserted in front.
Edits(o) ==
    { o }
    \cup { Flip(o, k) : k \in 1..Len(o) }
    \cup { SubSeq(o, d + 1, Len(o)) : d \in 1..2 }
    \cup { << b >> \o o : b \in Bytes }

LongInputs ==
    { << o, n >> : o \in LongOlds, n \in UNION { Edits(x) : x \in LongOlds } }
    \cup { << << 0, 0 >> \o Alt(10, 0), << 0, 0, 0, 255 >> \o Alt(11, 255) >>,
           << Alt(10, 0), Alt(21, 255) >>,
           << << 255, 0, 0, 255, 0, 0, 255, 255, 0, 0 >>,
              << 255, 255, 255, 0, 0, 255, 0, 0, 255, 255, 0, 0 >> >>,
           << << >>, Alt(10, 0) >>,
           << << 0, 0, 0, 255, 0, 255, 255, 255, 0, 255, 0, 255, 0 >>,
              << 0, 255, 255, 255, 0, 0, 255, 0, 255, 255, 255, 0, 255, 0, 255, 0 >> >> }

Inputs == (SeqsUpTo(MaxLen) \X SeqsUpTo(MaxLen)) \cup LongInputs

\* The state as diff is called: any buffers of Inputs, any valid parameters.
Start ==
    /\ \E io \in Inputs : obuf = io[1] /\ nbuf = io[2]
    /\ params \in ParamSpace
    /\ args = params
    /\ made = Some(DiffParams_new(args.sort_partitions, args.scan_chunk_size))
    /\ made[1] = Ok(params)
    /\ params.scan_chunk_size # None
         => NumChunks(nbuf, params.scan_chunk_size[1]) <= MaxChunks
    /\ pc = "diff"
    /\ iter = BsdiffIterator_new
    /\ cur = None
    /\ finished = {}
    /\ chan = << >>
    /\ rxi = 0
    /\ v = << >>
    /\ sent = << >>
    /\ translator = Translator_new
    /\ applier = Applier_new
    /\ controls = << >>
    /\ forwarded = << >>
    /\ result = "None"
    /\ panicked = FALSE

\* The index may answer with any occurrence.
Init == Start /\ sa = "any"

\* The index is deterministic.
InitD == Start /\ sa \in {"first", "last"}

chunk_size == params.scan_chunk_size[1]

num_chunks == NumChunks(nbuf, chunk_size)

\* The effect of one call of the sink on applier, controls and panicked.
\* c is the Control handed over (None: the sink is not called).
SinkCall(c, sinkOk) ==
    IF c = None
    THEN /\ UNCHANGED << applier, controls >>
         /\ panicked' = panicked
    ELSE IF ~sinkOk
    THEN /\ controls' = Append(controls, [control |-> c[1], ok |-> FALSE])
         /\ UNCHANGED applier
         /\ panicked' = panicked
    ELSE LET a == on_control(obuf, nbuf, applier, c[1])
         IN  /\ controls' = Append(controls, [control |-> c[1], ok |-> TRUE])
             /\ applier' = a.ap
             /\ panicked' = a.panic

\* diff, up to the choice of the scan mode (lines 353-381).
DiffStart ==
    /\ pc = "diff"
    /\ IF params.scan_chunk_size # None
       THEN /\ chan' = [i \in 0..(num_chunks - 1) |-> << >>]
            /\ sent' = [i \in 0..(num_chunks - 1) |-> None]
            /\ pc' = "par"
       ELSE /\ UNCHANGED << chan, sent >>
            /\ pc' = "scan"
    /\ iter' = BsdiffIterator_new
    /\ UNCHANGED << obuf, nbuf, sa, args, made, params, cur, finished, rxi, v, translator,
                    applier, controls, forwarded, result, panicked >>

\* Single-chunk mode: one step of `for m in BsdiffIterator::new(..)`.
ScanNext ==
    /\ pc = "scan"
    /\ \E r \in BsdiffIterator_next(obuf, nbuf, iter) :
          /\ iter' = r.st
          /\ cur' = r.m
          /\ panicked' = r.panic
          /\ pc' = IF r.panic THEN "panic" ELSE IF r.m = None THEN "close" ELSE "on_match"
          /\ result' = IF ~r.panic /\ r.m = None THEN "Ok" ELSE result
    /\ UNCHANGED << obuf, nbuf, sa, args, made, params, finished, chan, rxi, v, sent,
                    translator, applier, controls, forwarded >>

\* Mutant of AfterOnMatch: the result of on_match is dropped.
AfterOnMatch_ignored(res, chunked) == IF chunked THEN "forward" ELSE "scan"

\* `on_match(m)?`: where diff goes on after on_match returned res; an error
\* leaves diff, and its caller drops the translator (lines 398, 403, 467).
AfterOnMatch(res, chunked) ==
    IF res = "Err" THEN "drop"
    ELSE IF chunked THEN "forward"
    ELSE "scan"

\* on_match(m)?, with on_match = |m| translator.translate(m).
OnMatch ==
    /\ pc = "on_match"
    /\ \E sinkOk \in BOOLEAN :
          LET t == translate(obuf, nbuf, translator, cur[1], sinkOk)
          IN  /\ translator' = t.tr
              /\ SinkCall(t.control, sinkOk)
              /\ forwarded' = Append(forwarded, cur[1])
              /\ cur' = None
              /\ pc' = IF t.res = "Panic" \/ panicked' THEN "panic"
                       ELSE AfterOnMatch(t.res, params.scan_chunk_size # None)
              /\ result' = IF pc' = "drop" THEN "Err" ELSE result
    /\ UNCHANGED << obuf, nbuf, sa, args, made, params, iter, finished, chan, rxi, v, sent >>

\* Mutant of TxOf: every worker sends on the first channel.
TxOf_shared(i) == 0

\* par_chunks(chunk_size).zip(txs): the channel the worker of chunk i sends on.
TxOf(i) == i

\* Chunked mode: worker i scans its chunk and sends the vector (lines 383-386).
Worker(i) ==
    /\ i \notin finished
    /\ \E r \in Collect(obuf, Chunk(nbuf, chunk_size, i), BsdiffIterator_new, << >>) :
          /\ chan' = [chan EXCEPT ![TxOf(i)] = IF r.panic THEN @ ELSE Append(@, r.v)]
          /\ sent' = [sent EXCEPT ![i] = IF r.panic THEN @ ELSE Some(r.v)]
          /\ panicked' = r.panic
          /\ pc' = IF r.panic THEN "panic" ELSE pc
    /\ finished' = finished \cup {i}
    /\ UNCHANGED << obuf, nbuf, sa, args, made, params, iter, cur, rxi, v, translator, applier,
                    controls, forwarded, result >>

\* nbuf.par_chunks(chunk_size).zip(txs).for_each(..): the pool runs the
\* closure of any chunk that has not run yet.
RunWorker ==
    /\ pc = "par"
    /\ \E i \in 0..(num_chunks - 1) : Worker(i)

\* Mutant of Join: the driver goes on to receive without waiting for the
\* workers.
Join_early ==
    /\ pc = "par"
    /\ pc' = "recv"
    /\ rxi' = 0
    /\ UNCHANGED << obuf, nbuf, sa, args, made, params, iter, cur, finished, chan, v, sent,
                    translator, applier, controls, forwarded, result, panicked >>

\* for_each returns once every worker has finished.
Join ==
    /\ pc = "par"
    /\ finished = 0..(num_chunks - 1)
    /\ pc' = "recv"
    /\ rxi' = 0
    /\ UNCHANGED << obuf, nbuf, sa, args, made, params, iter, cur, finished, chan, v, sent,
                    translator, applier, controls, forwarded, result, panicked >>

\* Mutant of RxOf: the driver takes whichever channel holds a message.
RxOf_any(i) == { j \in DOMAIN chan : chan[j] # << >> }

\* rxs.into_iter().enumerate(): the receiver read at iteration i.
RxOf(i) == { i }

\* `for (i, rx) in rxs.into_iter().enumerate()`: rx.recv() of the next
\* receiver, or the end of diff.
Recv ==
    /\ pc = "recv"
    /\ IF rxi = num_chunks
       THEN /\ pc' = "close"
            /\ result' = "Ok"
            /\ UNCHANGED << chan, v, panicked >>
       ELSE \E j \in RxOf(rxi) :
               IF chan[j] = << >>
               THEN /\ pc' = "panic"
                    /\ panicked' = TRUE
                    /\ UNCHANGED << chan, v, result >>
               ELSE /\ v' = Head(chan[j])
                    /\ chan' = [chan EXCEPT ![j] = Tail(@)]
                    /\ pc' = "forward"
                    /\ UNCHANGED << result, panicked >>
    /\ UNCHANGED << obuf, nbuf, sa, args, made, params, iter, cur, finished, rxi, sent,
                    translator, applier, controls, forwarded >>

\* Mutant of Offset: copy_end is left chunk-local.
Offset_noCopyEnd(m, offset) == [m EXCEPT !.add_new_start = @ + offset]

\* m.add_new_start += offset; m.copy_end += offset;
Offset(m, offset) ==
    [m EXCEPT !.add_new_start = @ + offset, !.copy_end = @ + offset]

\* Mutant of Skip: a match with no add and no copy bytes is not forwarded.
Skip_degenerate(m) == m.add_length = 0 /\ m.copy_end = copy_start(m)

\* The filter at the head of the loop body is commented out (lines 392-394):
\* no match is skipped.
Skip(m) == FALSE

\* `for mut m in v`: the next match of the vector, fixed up and handed on.
Forward ==
    /\ pc = "forward"
    /\ IF v = << >>
       THEN /\ rxi' = rxi + 1
            /\ pc' = "recv"
            /\ UNCHANGED << v, cur >>
       ELSE IF Skip(Head(v))
       THEN /\ v' = Tail(v)
            /\ UNCHANGED << rxi, pc, cur >>
       ELSE LET offset == rxi * chunk_size
            IN  /\ cur' = Some(Offset(Head(v), offset))
                /\ v' = Tail(v)
                /\ pc' = "on_match"
                /\ rxi' = rxi
    /\ UNCHANGED << obuf, nbuf, sa, args, made, params, iter, finished, chan, sent, translator,
                    applier, controls, forwarded, result, panicked >>

\* translator.close()? after diff returned Ok (lines 113-115, 468).
Close ==
    /\ pc = "close"
    /\ \E sinkOk \in BOOLEAN :
          LET t == do_close(nbuf, translator, sinkOk)
          IN  /\ translator' = t.tr
              /\ SinkCall(t.control, sinkOk)
              /\ pc' = IF t.res = "Panic" \/ panicked' THEN "panic" ELSE "drop"
              /\ result' = IF t.res = "Err" THEN "Err" ELSE result
    /\ UNCHANGED << obuf, nbuf, sa, args, made, params, iter, cur, finished, chan, rxi, v,
                    sent, forwarded >>

\* Drop for Translator: do_close with the error ignored (lines 131-135).
Drop ==
    /\ pc = "drop"
    /\ \E sinkOk \in BOOLEAN :
          LET t == drop(nbuf, translator, sinkOk)
          IN  /\ translator' = t.tr
              /\ SinkCall(t.control, sinkOk)
              /\ pc' = IF t.res # "Ok" \/ panicked' THEN "panic" ELSE "done"
    /\ UNCHANGED << obuf, nbuf, sa, args, made, params, iter, cur, finished, chan, rxi, v,
                    sent, forwarded, result >>

Next ==
    \/ DiffStart
    \/ ScanNext
    \/ OnMatch
    \/ RunWorker
    \/ Join
    \/ Recv
    \/ Forward
    \/ Close
    \/ Drop

Spec == Init /\ [][Next]_vars

\* The same program over a deterministic index.
SpecD == InitD /\ [][Next]_vars


\* ------------------------------------------- a caller driving a Translator

\* A caller other than diff (diff_squashfs_data, any user of the public
\* Translator) hands over matches of its own making, closes or drops the
\* translator when it likes, and goes on after an error if it likes.  Its
\* sink records the Controls.  pc: "t_open" the translator is live,
\* "t_closed" close has run do_close and is about to drop self, "t_done"
\* that drop has run, "t_dropped" the translator was dropped without close,
\* "t_unwound" it was dropped by the unwinding of a panic.

\* Both regions of m lie inside the buffers o and n.
InBoundsMatch(m, o, n) ==
    /\ m.add_old_start + m.add_length <= Len(o)
    /\ m.copy_end <= Len(n)
    /\ m.copy_end >= m.add_new_start + m.add_length

TBuffers == { << >>, << 0, 255 >>, << 255, 0, 0 >> }

\* The well-formed matches over (o, n): both regions inside the buffers.
MatchSpace(o, n) ==
    { [add_old_start |-> a, add_new_start |-> s, add_length |-> l, copy_end |-> e]
      : a \in 0..Len(o), s \in 0..Len(n), l \in 0..Len(n), e \in 0..Len(n) }

WellFormed(o, n) == { m \in MatchSpace(o, n) : InBoundsMatch(m, o, n) }

InitT ==
    /\ sa = "any"
    /\ obuf \in TBuffers
    /\ nbuf \in TBuffers
    /\ params = DiffParams_default
    /\ args = params
    /\ made = Some(Ok(params))
    /\ pc = "t_open"
    /\ iter = BsdiffIterator_new
    /\ cur = None
    /\ finished = {}
    /\ chan = << >>
    /\ rxi = 0
    /\ v = << >>
    /\ sent = << >>
    /\ translator = Translator_new
    /\ applier = Applier_new
    /\ controls = << >>
    /\ forwarded = << >>
    /\ result = "None"
    /\ panicked = FALSE

\* The recording sink: the Control and the answer given.
Record(c, sinkOk) ==
    controls' = IF c = None THEN controls
                ELSE Append(controls, [control |-> c[1], ok |-> sinkOk])

\* translator.translate(m) for a match of the caller's choice.
TTranslate ==
    /\ pc = "t_open"
    /\ ~panicked
    /\ Len(forwarded) < MaxMatches
    /\ \E m \in WellFormed(obuf, nbuf), sinkOk \in BOOLEAN :
          LET t == translate(obuf, nbuf, translator, m, sinkOk)
          IN  /\ translator' = t.tr
              /\ Record(t.control, sinkOk)
              /\ forwarded' = Append(forwarded, m)
              /\ panicked' = (t.res = "Panic")
              /\ result' = t.res
    /\ UNCHANGED << obuf, nbuf, sa, args, made, params, pc, iter, cur, finished, chan, rxi, v,
                    sent, applier >>

\* translator.close(): do_close; self is dropped as close returns.
TClose ==
    /\ pc = "t_open"
    /\ ~panicked
    /\ \E sinkOk \in BOOLEAN :
          LET t == do_close(nbuf, translator, sinkOk)
          IN  /\ translator' = t.tr
              /\ Record(t.control, sinkOk)
              /\ panicked' = (t.res = "Panic")
              /\ result' = t.res
    /\ pc' = "t_closed"
    /\ UNCHANGED << obuf, nbuf, sa, args, made, params, iter, cur, finished, chan, rxi, v, sent,
                    applier, forwarded >>

\* Drop for Translator, at the end of close or with the translator still open.
TDrop ==
    /\ pc \in {"t_open", "t_closed"}
    /\ ~panicked
    /\ \E sinkOk \in BOOLEAN :
          LET t == drop(nbuf, translator, sinkOk)
          IN  /\ translator' = t.tr
              /\ Record(t.control, sinkOk)
              /\ panicked' = (t.res # "Ok")
    /\ pc' = IF pc = "t_closed" THEN "t_done" ELSE "t_dropped"
    /\ UNCHANGED << obuf, nbuf, sa, args, made, params, iter, cur, finished, chan, rxi, v, sent,
                    applier, forwarded, result >>

\* A panic in translate unwinds the caller, which drops the translator.
TUnwind ==
    /\ pc = "t_open"
    /\ panicked
    /\ \E sinkOk \in BOOLEAN :
          LET t == drop(nbuf, translator, sinkOk)
          IN  /\ translator' = t.tr
              /\ Record(t.control, sinkOk)
    /\ pc' = "t_unwound"
    /\ UNCHANGED << obuf, nbuf, sa, args, made, params, iter, cur, finished, chan,
                    rxi, v, sent, applier, forwarded, result, panicked >>

NextT == TTranslate \/ TClose \/ TDrop \/ TUnwind

SpecT == InitT /\ [][NextT]_vars

\* ------------------------------------------ a caller building DiffParams

\* The arguments a caller may pass to DiffParams::new (both usize).
ArgSpace ==
    { [sort_partitions |-> sp, scan_chunk_size |-> c]
      : sp \in 0..MaxArg, c \in { None } \cup { Some(k) : k \in 0..MaxArg } }

\* pc: "p_start" nothing built yet, "p_new" DiffParams::new has returned,
\* "p_default" DiffParams::default has returned.
InitP ==
    /\ sa = "any"
    /\ obuf = << >>
    /\ nbuf = << >>
    /\ args \in ArgSpace
    /\ made = None
    /\ params = DiffParams_default
    /\ pc = "p_start"
    /\ iter = BsdiffIterator_new
    /\ cur = None
    /\ finished = {}
    /\ chan = << >>
    /\ rxi = 0
    /\ v = << >>
    /\ sent = << >>
    /\ translator = Translator_new
    /\ applier = Applier_new
    /\ controls = << >>
    /\ forwarded = << >>
    /\ result = "None"
    /\ panicked = FALSE

\* DiffParams::new(args.sort_partitions, args.scan_chunk_size)
PNew ==
    /\ pc = "p_start"
    /\ made' = Some(DiffParams_new(args.sort_partitions, args.scan_chunk_size))
    /\ params' = IF made'[1].ok THEN made'[1].value ELSE params
    /\ pc' = "p_new"
    /\ UNCHANGED << obuf, nbuf, sa, args, iter, cur, finished, chan, rxi, v, sent,
                    translator, applier, controls, forwarded, result, panicked >>

\* DiffParams::default()
PDefault ==
    /\ pc = "p_start"
    /\ made' = Some(Ok(DiffParams_default))
    /\ params' = DiffParams_default
    /\ pc' = "p_default"
    /\ UNCHANGED << obuf, nbuf, sa, args, iter, cur, finished, chan, rxi, v, sent,
                    translator, applier, controls, forwarded, result, panicked >>

NextP == PNew \/ PDefault

SpecP == InitP /\ [][NextP]_vars

\* ------------------------------------------------------------- properties

chunked == params.scan_chunk_size # None

Contiguous(ms) ==
    \A k \in 1..(Len(ms) - 1) : ms[k + 1].add_new_start = ms[k].copy_end

\* ms covers [0, n) with no gap and no overlap.
Tiles(ms, n) ==
    /\ ms # << >>
    /\ ms[1].add_new_start = 0
    /\ Contiguous(ms)
    /\ \A k \in 1..Len(ms) : ms[k].add_new_start <= ms[k].copy_end
    /\ ms[Len(ms)].copy_end = n

IsPrefix(a, b) == Len(a) <= Len(b) /\ SubSeq(b, 1, Len(a)) = a

\* Every sink call so far was answered Ok.
AllOk == \A k \in 1..Len(controls) : controls[k].ok

\* The matches the single-chunk scan has emitted so far.
Emitted == forwarded \o cur

\* The run ended with diff and close both returning Ok.
DoneOk == pc = "done" /\ result = "Ok"

Rebuilt == applier.fresh = nbuf /\ applier.newer_pos = Len(nbuf)

\* C1: in single-chunk mode nothing panics (no assertion of the applier
\* fails, no index is out of bounds), and once diff and close have returned
\* Ok the applied Controls have rebuilt NEW byte for byte with the NEW cursor
\* at |NEW|.
C1_RoundTripSingle ==
    ~chunked => /\ ~panicked
                /\ DoneOk => Rebuilt

\* A finished single-chunk run of several Controls, one of them with add
\* bytes and a backward seek.
C1_Witness ==
    /\ ~chunked /\ DoneOk
    /\ Len(controls) >= 2
    /\ \E k \in 1..Len(controls) :
          controls[k].control.seek < 0 /\ controls[k].control.add # << >>

\* C2: in chunked mode, for every scan_chunk_size, nothing panics and once
\* diff and close have returned Ok the applied Controls have rebuilt NEW byte
\* for byte with the NEW cursor at |NEW|.
C2_RoundTripChunked ==
    chunked => /\ ~panicked
               /\ DoneOk => Rebuilt

\* A finished chunked run over several chunks whose Controls carry add bytes
\* and a non-zero seek.
C2_Witness ==
    /\ chunked /\ DoneOk
    /\ num_chunks >= 2
    /\ \E k \in 1..Len(controls) : controls[k].control.add # << >>
    /\ \E k \in 1..Len(controls) : controls[k].control.seek # 0

\* C3: the matches of one scanner pass start at 0, are contiguous, and, once
\* the pass has ended over a non-empty NEW, end at |NEW|: in single-chunk mode
\* the pass over NEW, in chunked mode each worker's pass over its chunk.
C3_Tiling ==
    /\ ~chunked =>
          /\ Emitted # << >> => Emitted[1].add_new_start = 0
          /\ Contiguous(Emitted)
          /\ (pc = "close" /\ nbuf # << >>) => Tiles(forwarded, Len(nbuf))
    /\ chunked =>
          \A i \in DOMAIN sent :
             sent[i] # None => Tiles(sent[i][1], Len(Chunk(nbuf, chunk_size, i)))

\* A single-chunk pass that ended with several matches, one of them ending
\* before the scan position (lenb > 0 moved copy_end back).
C3_Witness ==
    /\ ~chunked /\ pc = "close"
    /\ Len(forwarded) >= 2
    /\ forwarded[1].copy_end > 0
    /\ forwarded[1].add_length > 0

\* C4: every match the scanner emits keeps add_old_start + add_length <= |OLD|,
\* copy_end <= |NEW| and copy_end >= add_new_start + add_length, for the pass
\* over NEW and for each worker's pass over its chunk.
C4_Bounds ==
    /\ ~chunked =>
          \A k \in 1..Len(Emitted) : InBoundsMatch(Emitted[k], obuf, nbuf)
    /\ chunked =>
          \A i \in DOMAIN sent :
             sent[i] # None =>
                \A k \in 1..Len(sent[i][1]) :
                   InBoundsMatch(sent[i][1][k], obuf, Chunk(nbuf, chunk_size, i))

\* A pass in which the forward and the backward extension overlapped: the
\* second match starts inside OLD before the end of the first add region.
C4_Witness ==
    /\ ~chunked /\ pc = "close"
    /\ Len(forwarded) >= 2
    /\ \E k \in 1..(Len(forwarded) - 1) :
          /\ forwarded[k].add_length > 0
          /\ forwarded[k].copy_end = forwarded[k].add_new_start + forwarded[k].add_length
          /\ forwarded[k + 1].add_length > 0

\* C5: the match sequence is finite: between two emissions of a pass the
\* scan position grows, it never passes |NEW|, so a pass emits at most
\* |NEW| + 1 matches and ends with scan = |NEW|; and when diff and close have
\* returned Ok the sink has received exactly one Control per match, the last
\* with seek = 0.
C5_Termination ==
    /\ [][(pc = "scan" /\ pc' = "on_match" /\ forwarded # << >>)
             => iter'.scan > iter.scan]_vars
    /\ [](/\ iter.scan <= Len(nbuf)
          /\ ~chunked => Len(Emitted) <= Len(nbuf) + 1
          /\ (~chunked /\ pc = "close") => iter.scan = Len(nbuf)
          /\ chunked =>
                \A i \in DOMAIN sent :
                   sent[i] # None =>
                      Len(sent[i][1]) <= Len(Chunk(nbuf, chunk_size, i)) + 1)
    /\ [](DoneOk => /\ Len(controls) = Len(forwarded)
                    /\ AllOk
                    /\ controls # << >> => controls[Len(controls)].control.seek = 0)

\* A run that ended Ok after the scanner emitted three matches.
C5_Witness == DoneOk /\ ~chunked /\ Len(forwarded) >= 3 /\ Len(controls) = 3

\* The matches of chunks 0..n-1 as the claim stitches them: chunk i's vector
\* with i * chunk_size added to add_new_start and copy_end.
RECURSIVE Stitched(_)
Stitched(n) ==
    IF n = 0 THEN << >>
    ELSE Stitched(n - 1)
         \o [k \in 1..Len(sent[n - 1][1]) |->
               [add_old_start |-> sent[n - 1][1][k].add_old_start,
                add_new_start |-> sent[n - 1][1][k].add_new_start + (n - 1) * chunk_size,
                add_length    |-> sent[n - 1][1][k].add_length,
                copy_end      |-> sent[n - 1][1][k].copy_end + (n - 1) * chunk_size]]

\* C7: in chunked mode, whatever the order the workers finished in, the
\* matches handed to on_match are, in order, those of chunk 0, 1, 2, ... with
\* the chunk's offset added to add_new_start and copy_end; all of them once
\* diff has returned Ok; and consecutive ones are contiguous.
C7_ChunkOrder ==
    (chunked /\ pc \in {"recv", "forward", "on_match", "close", "drop", "done"}) =>
        /\ IsPrefix(forwarded \o cur, Stitched(num_chunks))
        /\ (pc = "close" => forwarded = Stitched(num_chunks))
        /\ Contiguous(forwarded \o cur)

\* Every match of three chunks forwarded, the chunk vectors not all alike.
C7_Witness ==
    /\ chunked /\ pc = "close"
    /\ num_chunks >= 3
    /\ \E i, j \in DOMAIN sent : sent[i] # sent[j]
    /\ Len(forwarded) >= 3

\* C8: when the sink makes on_match return an error, diff returns that error
\* (the caller goes on to drop the translator), and once diff has returned an
\* error on_match is never called again.
C8_SinkErrorAborts ==
    [][/\ (pc = "on_match" /\ Len(controls') > Len(controls)
             /\ ~controls'[Len(controls')].ok)
          => (result' = "Err" /\ pc' = "drop")
       /\ result = "Err" => forwarded' = forwarded]_vars

\* A chunked run aborted by a sink error while matches of the chunk were left.
C8_Witness == chunked /\ pc = "done" /\ result = "Err" /\ v # << >>


\* Control k of the matches ms as the claim gives it: the add bytes are
\* NEW - OLD (wrapping) over the add region, copy is NEW[copy_start, copy_end),
\* seek leads to the next match, and is 0 for the last.
ExpectedControl(ms, k) ==
    [add  |-> [i \in 1..ms[k].add_length |->
                 (nbuf[ms[k].add_new_start + i] - obuf[ms[k].add_old_start + i] + 256) % 256],
     copy |-> [i \in 1..(ms[k].copy_end - (ms[k].add_new_start + ms[k].add_length)) |->
                 nbuf[ms[k].add_new_start + ms[k].add_length + i]],
     seek |-> IF k < Len(ms)
              THEN ms[k + 1].add_old_start - (ms[k].add_old_start + ms[k].add_length)
              ELSE 0]

\* C6: for matches m1..mn that are contiguous and within bounds, handed to
\* translate with the sink answering Ok, nothing panics, Control k is emitted
\* when m(k+1) arrives (the last at close) and is ExpectedControl k; after
\* close there are n of them.
C6_TranslatorOutput ==
    (Contiguous(forwarded) /\ AllOk) =>
        /\ ~panicked
        /\ Len(controls) = IF translator.prev_match # None
                           THEN Len(forwarded) - 1 ELSE Len(forwarded)
        /\ pc \in {"t_closed", "t_done", "t_dropped"} => Len(controls) = Len(forwarded)
        /\ \A k \in 1..Len(controls) :
              controls[k].control
                 = ExpectedControl(SubSeq(forwarded, 1, min(Len(controls) + 1, Len(forwarded))), k)

\* Two contiguous matches translated and closed, the first with add bytes
\* that wrapped and a copy region, the second starting further back in OLD.
C6_Witness ==
    /\ pc = "t_closed" /\ AllOk /\ Contiguous(forwarded)
    /\ Len(forwarded) = 2 /\ Len(controls) = 2
    /\ controls[1].control.add # << >>
    /\ controls[1].control.copy # << >>
    /\ controls[1].control.seek < 0
    /\ \E i \in 1..Len(controls[1].control.add) : controls[1].control.add[i] = 1

\* 1 when a match is staged, else 0.
Staged == IF translator.prev_match # None THEN 1 ELSE 0

\* C9: an explicit close calls the sink once when a match is staged and not
\* at all otherwise; the close performed by the drop that follows calls it no
\* more, whatever the sink answered; with no match ever translated the sink
\* is never called.
C9_CloseIdempotent ==
    [][/\ (pc = "t_open" /\ pc' = "t_closed")
             => Len(controls') = Len(controls) + Staged
       /\ pc = "t_closed" => controls' = controls
       /\ (forwarded = << >> /\ pc' # "t_open") => controls' = << >>]_vars

\* Closed, then dropped, with a match staged at the close: one terminal
\* Control.
C9_Witness ==
    /\ pc = "t_done"
    /\ Len(forwarded) = 2 /\ Len(controls) = 2
    /\ controls[2].control.seek = 0

\* C10: dropping an open translator with a match staged calls the sink once,
\* with the staged add bytes, the copy region of the match and seek = 0, and
\* whatever the sink answers the drop does not panic and reports nothing.
C10_ImplicitClose ==
    [][(pc = "t_open" /\ pc' = "t_dropped" /\ translator.prev_match # None)
          => /\ Len(controls') = Len(controls) + 1
             /\ controls'[Len(controls')].control
                   = [add  |-> translator.buf,
                      copy |-> Slice(nbuf, copy_start(translator.prev_match[1]),
                                     translator.prev_match[1].copy_end),
                      seek |-> 0]
             /\ ~panicked'
             /\ result' = result
             /\ translator'.prev_match = None]_vars

\* An open translator with a staged match was dropped and the sink answered
\* the terminal Control with an error.
C10_Witness ==
    /\ pc = "t_dropped"
    /\ forwarded # << >>
    /\ result = "Ok"
    /\ controls # << >>
    /\ ~controls[Len(controls)].ok
    /\ controls[Len(controls)].control.seek = 0
    /\ ~panicked

\* C11: DiffParams::new returns an error exactly when sort_partitions < 1 or
\* scan_chunk_size = Some(0), and otherwise parameters holding the two given
\* values; DiffParams::default holds sort_partitions = 1 and no chunk size.
C11_ParamValidation ==
    /\ pc = "p_new" =>
          /\ ~made[1].ok <=> (args.sort_partitions < 1 \/ args.scan_chunk_size = << 0 >>)
          /\ made[1].ok =>
                /\ made[1].value.sort_partitions = args.sort_partitions
                /\ made[1].value.scan_chunk_size = args.scan_chunk_size
    /\ pc = "p_default" =>
          /\ made[1].ok
          /\ made[1].value.sort_partitions = 1
          /\ made[1].value.scan_chunk_size = << >>

\* DiffParams::new refused a zero chunk size given with a valid partition
\* count.
C11_Witness ==
    /\ pc = "p_new"
    /\ ~made[1].ok
    /\ args.sort_partitions >= 1
    /\ args.scan_chunk_size = << 0 >>

\* Every outcome of one scanner pass over n.
Passes(n) == Collect(obuf, n, BsdiffIterator_new, << >>)

\* The match vector of the pass over n, when there is only one.
RefPass(n) == (CHOOSE r \in Passes(n) : TRUE).v

\* The matches diff forwards as a function of OLD, NEW, the parameters and
\* the index alone: the pass over NEW, or the passes over chunks 0..n-1 in
\* chunk order with the chunk offsets added.
RECURSIVE RefChunks(_)
RefChunks(n) ==
    IF n = 0 THEN << >>
    ELSE LET w == RefPass(Chunk(nbuf, chunk_size, n - 1))
         IN  RefChunks(n - 1)
             \o [k \in 1..Len(w) |-> Offset(w[k], (n - 1) * chunk_size)]

RefMatches == IF chunked THEN RefChunks(num_chunks) ELSE RefPass(nbuf)

\* The Controls of the matches ms.
ControlsOf(ms) == [k \in 1..Len(ms) |-> ExpectedControl(ms, k)]

\* The Controls the sink has been handed so far.
SinkInput == [k \in 1..Len(controls) |-> controls[k].control]

\* C12: with a deterministic index every scanner pass has one outcome, and
\* the matches forwarded and the Controls handed to the sink are, at every
\* moment of every run and whatever the order the workers ran in, a prefix of
\* one sequence fixed by OLD, NEW, the parameters and the index; a run that
\* ended Ok produced that sequence in full.  Two runs on the same inputs
\* hence produce the same Controls in the same order.
C12_Determinism ==
    sa # "any" =>
        LET ref == RefMatches
            refControls == ControlsOf(ref)
        IN  /\ pc = "diff" =>
                  /\ ~chunked => Cardinality(Passes(nbuf)) = 1
                  /\ chunked => \A i \in 0..(num_chunks - 1) :
                                   Cardinality(Passes(Chunk(nbuf, chunk_size, i))) = 1
            /\ IsPrefix(forwarded, ref)
            /\ ~panicked => IsPrefix(SinkInput, refControls)
            /\ DoneOk => /\ forwarded = ref
                         /\ SinkInput = refControls

\* A chunked run over a deterministic index ended Ok after the worker of the
\* last chunk finished before the worker of chunk 0 did, with Controls that
\* differ between chunks; OLD holds the longest match at several places.
C12_Witness ==
    /\ sa # "any" /\ chunked /\ DoneOk
    /\ num_chunks >= 3
    /\ Len(controls) >= 3
    /\ \E j, k \in 1..Len(controls) : controls[j].control # controls[k].control
    /\ Cardinality(Occurrences(obuf, nbuf)) >= 2

\* C13: with an index that answers with an occurrence of the longest common
\* prefix, no call of next and no worker pass indexes OLD or NEW out of
\* bounds or underflows an unsigned subtraction; and a negative
\* scsc + lastoffset, narrowed to usize, is not below |OLD|.
C13_ScannerCannotFail ==
    /\ (pc = "scan") =>
          \A r \in BsdiffIterator_next(obuf, nbuf, iter) : ~r.panic
    /\ (pc = "par") =>
          \A i \in 0..(num_chunks - 1) :
             \A r \in Passes(Chunk(nbuf, chunk_size, i)) : ~r.panic
    /\ \A x \in (0 - (Len(obuf) + Len(nbuf) + SignificantMargin))..(0 - 1) :
          ~(as_usize(x) < Len(obuf))

\* The scanner stands between two calls with a match emitted, NEW not
\* exhausted, and the last match found in OLD before its place in NEW
\* (lastoffset < 0) after a backward extension.
C13_Witness ==
    /\ ~chunked /\ pc = "scan"
    /\ forwarded # << >>
    /\ iter.scan < Len(nbuf)
    /\ iter.lastoffset < 0
    /\ iter.lastscan < iter.scan

\* C14: the applier starts with both cursors at 0; whenever it applies the
\* Control of match k its OLD cursor is that match's add_old_start and its NEW
\* cursor that match's add_new_start, and afterwards the OLD cursor is within
\* [0, |OLD|]; the first match of a pass (over NEW, or over a chunk) has
\* add_old_start = 0.
C14_ApplierCursors ==
    /\ [][(Len(controls') = Len(controls) + 1 /\ controls'[Len(controls')].ok)
             => /\ applier.older_pos = forwarded[Len(controls')].add_old_start
                /\ applier.newer_pos = forwarded[Len(controls')].add_new_start
                /\ applier'.older_pos \in 0..Len(obuf)]_vars
    /\ []((controls = << >>) => (applier.older_pos = 0 /\ applier.newer_pos = 0))
    /\ [](applier.older_pos \in 0..Len(obuf))
    /\ [](/\ (~chunked /\ Emitted # << >>) => Emitted[1].add_old_start = 0
          /\ chunked => \A i \in DOMAIN sent :
                (sent[i] # None /\ sent[i][1] # << >>) => sent[i][1][1].add_old_start = 0)

\* A chunked run over several chunks ended Ok; one Control moved the OLD
\* cursor back and the cursor ends inside OLD.
C14_Witness ==
    /\ chunked /\ DoneOk
    /\ num_chunks >= 2
    /\ \E k \in 1..Len(controls) :
          controls[k].control.seek < 0 /\ controls[k].control.add # << >>
    /\ applier.older_pos > 0

\* NEW is OLD with the one byte at position k changed.
FlippedAt(k) ==
    /\ Len(nbuf) = Len(obuf)
    /\ k \in 0..(Len(nbuf) - 1)
    /\ \A i \in 0..(Len(nbuf) - 1) : (At(nbuf, i) # At(obuf, i)) <=> (i = k)

\* Position k of NEW lies in the add region of one of the matches ms.
InAdd(ms, k) ==
    \E j \in 1..Len(ms) :
       /\ ms[j].add_new_start <= k
       /\ k < ms[j].add_new_start + ms[j].add_length

\* C15 as stated: when NEW is OLD with the byte at k changed, position k lies
\* in the add region of an emitted match (here in single-chunk mode, once the
\* scan has ended), and a run that ended Ok has rebuilt NEW.
C15_FlipInAdd_AsStated ==
    /\ (~chunked /\ pc = "close") =>
          \A k \in 0..(Len(nbuf) - 1) : FlippedAt(k) => InAdd(forwarded, k)
    /\ DoneOk => Rebuilt

\* C15, amended: when NEW is OLD with the byte at k changed, the single-chunk
\* scan emits one match, from 0 in OLD and in NEW to |NEW|; position k lies in
\* its add region exactly when at least two bytes follow it (k + 2 < |NEW|),
\* and in its copy region otherwise; in every mode a run that ended Ok has
\* rebuilt NEW.
C15_SingleByteFlip ==
    /\ (~chunked /\ pc = "close") =>
          \A k \in 0..(Len(nbuf) - 1) :
             FlippedAt(k) =>
                /\ Len(forwarded) = 1
                /\ forwarded[1].add_old_start = 0
                /\ forwarded[1].add_new_start = 0
                /\ forwarded[1].copy_end = Len(nbuf)
                /\ InAdd(forwarded, k) <=> (k + 2 < Len(nbuf))
                /\ ~InAdd(forwarded, k) => forwarded[1].add_length = k
    /\ (DoneOk /\ \E k \in 0..(Len(nbuf) - 1) : FlippedAt(k)) => Rebuilt

\* A single-chunk scan of a NEW of ten bytes or more with one byte of its
\* middle changed has ended, the byte inside the add region.
C15_Witness ==
    /\ ~chunked /\ pc = "close"
    /\ Len(nbuf) >= 10
    /\ \E k \in 1..(Len(nbuf) - 3) : FlippedAt(k) /\ InAdd(forwarded, k)

\* The copy regions of the matches ms, one after the other.
RECURSIVE CopyRegions(_)
CopyRegions(ms) ==
    IF ms = << >> THEN << >>
    ELSE Slice(nbuf, copy_start(Head(ms)), Head(ms).copy_end) \o CopyRegions(Tail(ms))

\* C16: with OLD empty and NEW not, every match emitted (by the pass over NEW
\* or by a worker) has add_length = 0 and every Control an empty add; once
\* diff has returned Ok the copy regions of the forwarded matches, one after
\* the other, are NEW; in single-chunk mode the sink is called once, at
\* close, with add empty, copy = NEW and seek = 0.
C16_EmptyOld ==
    (obuf = << >> /\ nbuf # << >>) =>
        /\ \A k \in 1..Len(forwarded \o cur) : (forwarded \o cur)[k].add_length = 0
        /\ chunked => \A i \in DOMAIN sent :
              sent[i] # None => \A k \in 1..Len(sent[i][1]) : sent[i][1][k].add_length = 0
        /\ \A k \in 1..Len(controls) : controls[k].control.add = << >>
        /\ pc = "close" => CopyRegions(forwarded) = nbuf
        /\ ~chunked =>
              /\ pc \notin {"drop", "done"} => controls = << >>
              /\ pc = "close" => Len(forwarded) = 1
              /\ (pc \in {"drop", "done"}) =>
                    /\ Len(controls) = 1
                    /\ controls[1].control = [add |-> << >>, copy |-> nbuf, seek |-> 0]

\* A single-chunk run over an empty OLD and a NEW of several bytes ended Ok
\* with its one Control.
C16_Witness ==
    /\ ~chunked /\ DoneOk
    /\ obuf = << >> /\ Len(nbuf) >= 3
    /\ Len(controls) = 1

\* Every position one call of next on the iterator st passes through.
RECURSIVE Positions(_, _, _, _)
Positions(o, n, xs, acc) ==
    LET new == (UNION { StepCall(o, n, x) : x \in xs }) \ acc
    IN  IF new = { } THEN acc ELSE Positions(o, n, new, acc \cup new)

\* The iterators with which a call of next on st enters the emission block.
EmissionPoints(o, n, st) ==
    { x.st : x \in { y \in Positions(o, n, { Call(st) }, { Call(st) }) :
                        /\ y.at = "check"
                        /\ ~y.panic
                        /\ (y.st.length # y.oldscore \/ y.st.scan = Len(n)) } }

\* Every iterator a pass over n goes through between two calls of next.
RECURSIVE PassStates(_, _, _)
PassStates(o, n, st) ==
    { st } \cup UNION { PassStates(o, n, r.st)
                        : r \in { q \in BsdiffIterator_next(o, n, st) : q.m # None } }

\* 2 * matches - length of the forward extension of length L from
\* (lastpos, lastscan), and of the backward extension of length L from
\* (pos, scan).
ScoreF(o, n, st, L) ==
    2 * Cardinality({ i \in 0..(L - 1) : o[st.lastpos + i + 1] = n[st.lastscan + i + 1] }) - L

ScoreB(o, n, st, L) ==
    2 * Cardinality({ i \in 1..L : o[st.pos - i + 1] = n[st.scan - i + 1] }) - L

\* L is the smallest length of the domain of Score with the greatest score.
SmallestBest(L, Score) ==
    /\ L \in DOMAIN Score
    /\ \A K \in DOMAIN Score : Score[K] <= Score[L]
    /\ \A K \in DOMAIN Score : K < L => Score[K] < Score[L]

\* What C17 says of the emission block entered with the iterator st.
ExtensionsAsClaimed(o, n, st) ==
    /\ SmallestBest(ForwardLen(o, n, st).len,
                    [ L \in 0..min(st.scan - st.lastscan, Len(o) - st.lastpos) |->
                        ScoreF(o, n, st, L) ])
    /\ st.scan < Len(n) =>
          SmallestBest(BackwardLen(o, n, st).len,
                       [ L \in 0..min(st.scan - st.lastscan, st.pos) |->
                           ScoreB(o, n, st, L) ])
    /\ st.scan = Len(n) => BackwardLen(o, n, st).len = 0

\* C17: at every emission, of the pass over NEW and of every worker's pass
\* over its chunk, lenf before the overlap arbitration is the smallest length
\* of 0..min(scan - lastscan, |OLD| - lastpos) with the greatest
\* 2 * matches - length forwards from (lastpos, lastscan); lenb is the
\* smallest length of 0..min(scan - lastscan, pos) with the greatest score
\* backwards from (pos, scan) when scan < |NEW|, and is 0 when scan = |NEW|.
C17_ExtensionScore ==
    /\ (~chunked /\ pc = "scan") =>
          \A st \in EmissionPoints(obuf, nbuf, iter) : ExtensionsAsClaimed(obuf, nbuf, st)
    /\ (chunked /\ pc = "par" /\ finished = { }) =>
          \A i \in 0..(num_chunks - 1) :
             \A it \in PassStates(obuf, Chunk(nbuf, chunk_size, i), BsdiffIterator_new) :
                \A st \in EmissionPoints(obuf, Chunk(nbuf, chunk_size, i), it) :
                   ExtensionsAsClaimed(obuf, Chunk(nbuf, chunk_size, i), st)

\* The scanner is about to emit before the end of NEW with both extensions
\* non-empty and shorter than their ranges.
C17_Witness ==
    /\ ~chunked /\ pc = "scan"
    /\ \E st \in EmissionPoints(obuf, nbuf, iter) :
          /\ st.scan < Len(nbuf)
          /\ ForwardLen(obuf, nbuf, st).len > 0
          /\ ForwardLen(obuf, nbuf, st).len < min(st.scan - st.lastscan, Len(obuf) - st.lastpos)
          /\ BackwardLen(obuf, nbuf, st).len > 0
          /\ BackwardLen(obuf, nbuf, st).len < min(st.scan - st.lastscan, st.pos)

\* translate is called with a match that does not start where the staged
\* match ended.
GapTranslate ==
    /\ pc = "t_open" /\ ~panicked
    /\ translator.prev_match # None
    /\ Len(forwarded') = Len(forwarded) + 1
    /\ forwarded'[Len(forwarded')].add_new_start # translator.prev_match[1].copy_end

\* C18 as stated: such a call first hands the Control of the staged match to
\* the sink and then fails the contiguity assertion.
C18_SinkThenAssert_AsStated ==
    [][GapTranslate => (Len(controls') = Len(controls) + 1 /\ panicked')]_vars

\* C18, amended: such a call fails the contiguity assertion before the sink
\* is called: it panics, the sink receives nothing, the staged match is gone
\* and the new one is not staged, so the drop of the unwinding sends nothing
\* either; the Control of the staged match is never emitted.
C18_AssertBeforeSink ==
    [][/\ GapTranslate => /\ panicked'
                          /\ controls' = controls
                          /\ translator'.prev_match = None
       /\ panicked => controls' = controls]_vars

\* A translate that broke contiguity panicked and the translator was dropped
\* by the unwinding: no Control for the two matches handed over, the first of
\* which had add bytes and a copy region.
C18_Witness ==
    /\ pc = "t_unwound"
    /\ Len(forwarded) = 2
    /\ forwarded[1].add_length > 0
    /\ forwarded[1].copy_end > copy_start(forwarded[1])
    /\ forwarded[2].add_new_start # forwarded[1].copy_end
    /\ controls = << >>

\* The receiver of channel i has not been dropped: the receivers live until
\* the loop over rxs reaches them, and diff drops those left when it returns.
RxAlive(i) ==
    \/ pc = "par"
    \/ pc \in {"recv", "forward", "on_match"} /\ i >= rxi

\* The chunks of NEW that hold at least one byte.
NonEmptyChunks == { i \in 0..Len(nbuf) : Chunk(nbuf, chunk_size, i) # << >> }

\* C19: in chunked mode there is one channel per non-empty chunk of NEW; a
\* worker sends once, on the channel of its chunk, while the receiver of
\* that channel is alive; no match is forwarded before every worker has
\* finished; each receive of the driver finds the vector of its chunk; every
\* worker pass has an outcome; hence neither expect fails and the driver is
\* never left waiting.
C19_ChannelHandOff ==
    /\ []((chunked /\ pc # "diff") =>
            /\ DOMAIN chan = NonEmptyChunks
            /\ num_chunks = Cardinality(NonEmptyChunks)
            /\ \A i \in DOMAIN chan :
                  /\ Len(chan[i]) <= 1
                  /\ chan[i] # << >> => (i \in finished /\ chan[i] = << sent[i][1] >>)
                  /\ i \notin finished => (chan[i] = << >> /\ sent[i] = None)
                  /\ (i \in finished /\ pc # "panic") => sent[i] # None
            /\ (forwarded \o cur # << >> \/ pc \in {"recv", "forward", "on_match"})
                  => finished = 0..(num_chunks - 1)
            /\ (pc = "recv" /\ rxi < num_chunks) => chan[rxi] = << sent[rxi][1] >>
            /\ (pc = "par" /\ finished = { }) =>
                  \A i \in 0..(num_chunks - 1) : Passes(Chunk(nbuf, chunk_size, i)) # { }
            /\ pc # "panic")
    /\ [][chunked =>
            \A i \in DOMAIN chan :
               (i \in DOMAIN chan' /\ Len(chan'[i]) > Len(chan[i]))
                  => (RxAlive(i) /\ i \notin finished /\ finished' = finished \cup {i})]_vars

\* The driver has taken the vector of chunk 0 and is about to receive that of
\* chunk 1, with the vector of the last of three or more chunks waiting.
C19_Witness ==
    /\ chunked /\ pc = "recv"
    /\ num_chunks >= 3
    /\ rxi = 1
    /\ forwarded # << >>
    /\ chan[num_chunks - 1] # << >>

\* C20: over a deterministic index, when NEW is not empty and the chunk size
\* is at least |NEW|, the matches diff forwards in chunked mode are those it
\* forwards in single-chunk mode: in both modes the forwarded matches are at
\* every moment a prefix of the one pass over NEW, and all of it once diff
\* has returned Ok.
C20_WholeChunkIsInline ==
    (nbuf # << >> /\ (chunked => chunk_size >= Len(nbuf))) =>
        /\ chunked => (pc # "diff" => (num_chunks = 1 /\ Chunk(nbuf, chunk_size, 0) = nbuf))
        /\ pc \in {"on_match", "close"} => IsPrefix(forwarded \o cur, RefPass(nbuf))
        /\ pc = "close" => forwarded = RefPass(nbuf)

\* A chunked run with NEW in one chunk has forwarded its three matches or
\* more, the first of them with no add and no copy bytes.
C20_Witness ==
    /\ chunked /\ pc = "close"
    /\ nbuf # << >> /\ chunk_size >= Len(nbuf)
    /\ Len(forwarded) >= 3
    /\ forwarded[1].add_length = 0 /\ forwarded[1].copy_end = 0

\* The sink was called in this step.
SinkCalled == controls' # controls

\* C21: a step calls the sink at most once, and only for a match that was
\* staged before it; that match is no longer staged afterwards, the only
\* match staged after a sink call being the argument of a translate that
\* returned Ok.  When the sink answers with an error, from translate(m) or
\* from close, nothing is staged afterwards and closed is still false; from
\* a state with nothing staged, as after such an error, no close and no drop
\* calls the sink.
C21_OneSinkCallPerMatch ==
    [][/\ SinkCalled =>
             /\ translator.prev_match # None
             /\ Len(controls') = Len(controls) + 1
             /\ SubSeq(controls', 1, Len(controls)) = controls
             /\ controls'[Len(controls')].control.copy
                   = Slice(nbuf, copy_start(translator.prev_match[1]),
                           translator.prev_match[1].copy_end)
             /\ \/ translator'.prev_match = None
                \/ /\ forwarded' # forwarded
                   /\ result' = "Ok"
                   /\ controls'[Len(controls')].ok
                   /\ translator'.prev_match = Some(forwarded'[Len(forwarded')])
       /\ (SinkCalled /\ ~controls'[Len(controls')].ok) =>
             /\ translator'.prev_match = None
             /\ ~translator'.closed
             /\ (pc' \in {"t_open", "t_closed"} /\ ~panicked) => result' = "Err"
       /\ (translator.prev_match = None /\ forwarded' = forwarded) => ~SinkCalled
       /\ (result = "Err" /\ pc \in {"t_open", "t_closed"}) =>
             (translator.prev_match = None /\ ~translator.closed /\ ~SinkCalled)]_vars

\* Of two matches handed to translate the sink refused the Control of the
\* first when the second arrived; the translator was then closed and
\* dropped, and the sink was called that one time only.
C21_Witness ==
    /\ pc = "t_done"
    /\ ~panicked
    /\ Len(forwarded) = 2
    /\ Len(controls) = 1
    /\ ~controls[1].ok
    /\ translator.prev_match = None
    /\ translator.closed

====
